---- MODULE Spec2Model ----
(***************************************************************************)
(* The reader/worker pipeline of seq_io_parallel: process_parallel         *)
(* (src/src/macro_impl.rs) and process_parallel_paired                     *)
(* (src/src/macro_paired_impl.rs).  One reader thread fills the slots of   *)
(* record_sets round-robin and publishes their indices on a bounded        *)
(* channel; num_threads workers receive indices, drain the slots and call  *)
(* the processor's callbacks; the calling thread joins them all.           *)
(***************************************************************************)
EXTENDS Integers, Sequences, FiniteSets, TLC

\* Bounds of the model.
MaxThreads == 2      \* num_threads ranges over 1..MaxThreads
MaxBatches == 3      \* record sets a source yields before it ends
MaxBatchLen == 2     \* records in one record set
MaxPairedBatches == 2 \* record sets each of the two paired sources yields
MaxLongBatches == 4  \* record sets of the source in the runs with one worker

VARIABLES
    num_threads,   \* the num_threads argument
    sources,       \* <<source1, source2>>: what the parsers read (source2: paired only)
    processor,     \* the behaviour of the processor every worker clones
    record_sets,   \* slot index -> contents of the record set (a pair of them when paired)
    holders,       \* slot index -> set of threads inside the slot's Mutex
    channel,       \* the bounded channel: sequence of Option<usize> tokens
    reader,        \* the reader thread: pc, current_idx, fills, signals, result
    workers,       \* thread index -> the worker thread and its processor clone
    main,          \* the calling thread: the function called, pc, next handle to
                   \* join, returned value
    delivered      \* record (pair) -> number of process_record(_pair) invocations

vars == <<num_threads, sources, processor, record_sets, holders,
          channel, reader, workers, main, delivered>>

----------------------------------------------------------------------------
\* Values

Ok == <<"Ok">>
ParseErr(s) == <<"Err", "parse", s>>
ProcErr(t, cb) == <<"Err", "processor", t, cb>>
IsErr(r) == r[1] = "Err"

SomeTok(idx) == <<"Some", idx>>
NoneTok == <<"None">>

READER == <<"reader", 0>>
Worker(w) == <<"worker", w>>

Threads == 0 .. (num_threads - 1)

RECURSIVE SumTo(_, _)
SumTo(sizes, b) == IF b = 0 THEN 0 ELSE sizes[b] + SumTo(sizes, b - 1)

\* The records of the b-th record set of a source, numbered by their position
\* in the stream (1, 2, ...).
BatchRecords(sizes, b) == [i \in 1 .. sizes[b] |-> SumTo(sizes, b - 1) + i]

NumRecords(sizes) == SumTo(sizes, Len(sizes))

SeqsUpTo(S, n) == UNION {[1 .. k -> S] : k \in 0 .. n}

\* A source: the sizes of the record sets the parser will yield, and whether
\* the stream then ends cleanly or with a malformed record.
SourcesOf(n) == [sizes : SeqsUpTo(1 .. MaxBatchLen, n), ending : {"eof", "err"}]

Sources == SourcesOf(MaxBatches)

PairedSources == SourcesOf(MaxPairedBatches)

NoSource == [sizes |-> <<>>, ending |-> "eof"]

\* A processor: process_record fails on record badRec (0: never), each clone's
\* on_batch_complete fails at its obcFailAt-th call (0: never), and
\* on_thread_complete fails iff otcFail.  At most one of the three is set.
NoFault == [badRec |-> 0, obcFailAt |-> 0, otcFail |-> FALSE]

Processors(n, b) ==
    {NoFault}
    \cup {[NoFault EXCEPT !.badRec = k] : k \in 1 .. n}
    \cup {[NoFault EXCEPT !.obcFailAt = j] : j \in 1 .. b}
    \cup {[NoFault EXCEPT !.otcFail = TRUE]}

----------------------------------------------------------------------------
\* create_record_sets / create_channels

NumSlots(n) == n * 2

create_record_sets(n) == [s \in 0 .. (NumSlots(n) - 1) |-> <<>>]

Capacity(n) == n * 2

\* The seq_io parser's read_record_set on its k-th call (k = 1, 2, ...).
read_record_set(src, k) ==
    IF k <= Len(src.sizes)
    THEN [tag |-> "Some", res |-> "Ok", set |-> BatchRecords(src.sizes, k)]
    ELSE IF src.ending = "err" /\ k = Len(src.sizes) + 1
    THEN [tag |-> "Some", res |-> "Err", set |-> <<>>]
    ELSE [tag |-> "None", res |-> "Ok", set |-> <<>>]

\* A lock that lets a second thread in.
CanLockAlways(s) == TRUE

\* Mutex::lock returns once no other thread is inside the mutex.
CanLock(s) == holders[s] = {}

Lock(h, s, t) == [h EXCEPT ![s] = @ \cup {t}]

\* A guard whose drop does not release the mutex.
UnlockForgotten(h, s, t) == h

Unlock(h, s, t) == [h EXCEPT ![s] = @ \ {t}]

\* A channel without a bound.
CanSendAlways == TRUE

\* Sender::send on the bounded channel blocks while it is full.
CanSend == Len(channel) < Capacity(num_threads)

\* All senders are gone once the reader thread, which owns tx, has returned.
Disconnected == reader.pc = "done"

----------------------------------------------------------------------------
\* Initial state: process_parallel has been called, nothing is spawned yet.

InitReader == [pc |-> "unspawned", current_idx |-> 0, fills |-> 0, signals |-> 0,
               published |-> 0, result |-> Ok]

InitWorker == [pc |-> "unspawned", arg |-> 0, thread_id |-> -1, idx |-> 0, pos |-> 0,
               set_ids |-> 0, somes |-> 0, nones |-> 0,
               batch_completes |-> 0, thread_completes |-> 0,
               drained |-> <<>>, result |-> Ok]

\* The calling thread at the entry of the function it called.
InitMain(f) == [call |-> f, pc |-> "start", next |-> 0, result |-> Ok]

InitCommon ==
    /\ num_threads \in 1 .. MaxThreads
    /\ holders = [s \in 0 .. (NumSlots(num_threads) - 1) |-> {}]
    /\ channel = <<>>
    /\ reader = InitReader
    /\ workers = [w \in Threads |-> InitWorker]

Init ==
    /\ InitCommon
    /\ main = InitMain("process_parallel")
    /\ record_sets = create_record_sets(num_threads)
    /\ \E src \in Sources :
          /\ sources = <<src, NoSource>>
          /\ processor \in Processors(NumRecords(src.sizes), Len(src.sizes))
          /\ delivered = [r \in 1 .. NumRecords(src.sizes) |-> 0]

----------------------------------------------------------------------------
\* process_parallel, the calling thread

\* Every worker is handed the same id.
ThreadIdArgZero(w) == 0

\* for thread_id in 0..num_threads: the id handed to the w-th spawned worker.
ThreadIdArg(w) == w

\* Spawns the reader and, for thread_id in 0..num_threads, one worker.  One
\* step: a thread that is spawned but has not run yet differs in nothing from
\* one that is spawned later.
Spawn ==
    /\ main.pc = "start"
    /\ reader' = [reader EXCEPT !.pc = "lock"]
    /\ workers' = [w \in Threads |-> [workers[w] EXCEPT !.pc = "start", !.arg = ThreadIdArg(w)]]
    /\ main' = [main EXCEPT !.pc = "join_reader"]
    /\ UNCHANGED <<num_threads, sources, processor, record_sets, holders,
                   channel, delivered>>

\* The reader's result is dropped.
ReaderFailedIgnored == FALSE

\* The ? on the reader's joined result.
ReaderFailed == IsErr(reader.result)

\* reader_handle.join().unwrap()?
JoinReader ==
    /\ main.pc = "join_reader"
    /\ reader.pc = "done"
    /\ main' = IF ReaderFailed
               THEN [main EXCEPT !.pc = "scope_exit", !.result = reader.result]
               ELSE [main EXCEPT !.pc = "join_workers", !.next = 0]
    /\ UNCHANGED <<num_threads, sources, processor, record_sets, holders,
                   channel, reader, workers, delivered>>

\* The handles are joined from the last one pushed.
JoinOrderReversed(i) == num_threads - 1 - i

\* for handle in handles: the worker whose handle is the i-th one joined
\* (the handles were pushed in spawn order).
JoinOrder(i) == i

\* for handle in handles { handle.join().unwrap()?; }  Ok(())
JoinWorker ==
    /\ main.pc = "join_workers"
    /\ IF main.next = num_threads
       THEN main' = [main EXCEPT !.pc = "scope_exit", !.result = Ok]
       ELSE /\ workers[JoinOrder(main.next)].pc = "done"
            /\ main' = IF IsErr(workers[JoinOrder(main.next)].result)
                       THEN [main EXCEPT !.pc = "scope_exit",
                                         !.result = workers[JoinOrder(main.next)].result]
                       ELSE [main EXCEPT !.next = @ + 1]
    /\ UNCHANGED <<num_threads, sources, processor, record_sets, holders,
                   channel, reader, workers, delivered>>

\* The scope returns as soon as its closure has.
AllFinishedSkipped == TRUE

\* thread::scope joins every thread spawned in it before it returns.
AllFinished ==
    /\ reader.pc = "done"
    /\ \A w \in Threads : workers[w].pc = "done"

\* thread::scope returns only when every spawned thread has finished.
ScopeExit ==
    /\ main.pc = "scope_exit"
    /\ AllFinished
    /\ main' = [main EXCEPT !.pc = "returned"]
    /\ UNCHANGED <<num_threads, sources, processor, record_sets, holders,
                   channel, reader, workers, delivered>>

MainStep == Spawn \/ JoinReader \/ JoinWorker \/ ScopeExit

----------------------------------------------------------------------------
\* run_reader_thread

\* What a slot may hold after a fill that failed with a parse error: the
\* parser had not touched the record set yet, or had already cleared it.
Unfilled(old, empty) == {old, empty}

\* let mut record_set = record_sets[current_idx].lock();
ReaderLock ==
    /\ reader.pc = "lock"
    /\ CanLock(reader.current_idx)
    /\ holders' = Lock(holders, reader.current_idx, READER)
    /\ reader' = [reader EXCEPT !.pc = "read"]
    /\ UNCHANGED <<num_threads, sources, processor, record_sets, channel,
                   workers, main, delivered>>

\* read_fn(&mut reader, &mut record_set): Some(Ok) drops the guard and goes on
\* to send, Some(Err) returns the error, None (the parser is finished and
\* returns before it touches the record set) leaves the loop.  The guard is
\* released on each of the three paths.
ReaderRead ==
    /\ reader.pc = "read"
    /\ LET idx == reader.current_idx
           got == read_record_set(sources[1], reader.fills + 1)
       IN  /\ holders' = Unlock(holders, idx, READER)
           /\ IF got.tag = "Some" /\ got.res = "Ok"
              THEN /\ record_sets' = [record_sets EXCEPT ![idx] = got.set]
                   /\ reader' = [reader EXCEPT !.pc = "send", !.fills = @ + 1]
              ELSE IF got.tag = "Some"
              THEN /\ \E c \in Unfilled(record_sets[idx], <<>>) :
                         record_sets' = [record_sets EXCEPT ![idx] = c]
                   /\ reader' = [reader EXCEPT !.pc = "done", !.fills = @ + 1,
                                               !.result = ParseErr(1)]
              ELSE /\ record_sets' = record_sets
                   /\ reader' = [reader EXCEPT !.pc = "signal", !.fills = @ + 1]
    /\ UNCHANGED <<num_threads, sources, processor, channel, workers, main,
                   delivered>>

\* The index is never advanced.
NextIdxStuck(idx) == idx

NextIdx(idx) == (idx + 1) % NumSlots(num_threads)

\* tx.send(Some(current_idx)).unwrap(); current_idx = (current_idx + 1) % len
ReaderSend ==
    /\ reader.pc = "send"
    /\ CanSend
    /\ channel' = Append(channel, SomeTok(reader.current_idx))
    /\ reader' = [reader EXCEPT !.pc = "lock", !.current_idx = NextIdx(@),
                                !.published = @ + 1]
    /\ UNCHANGED <<num_threads, sources, processor, record_sets, holders,
                   workers, main, delivered>>

\* One None token too few.
NumSignalsShort == num_threads - 1

\* for _ in 0..num_threads: the number of None tokens the reader sends.
NumSignals == num_threads

\* for _ in 0..num_threads { tx.send(None).unwrap(); }
ReaderSignal ==
    /\ reader.pc = "signal"
    /\ reader.signals < NumSignals
    /\ CanSend
    /\ channel' = Append(channel, NoneTok)
    /\ reader' = [reader EXCEPT !.signals = @ + 1]
    /\ UNCHANGED <<num_threads, sources, processor, record_sets, holders,
                   workers, main, delivered>>

\* Ok(()): the reader thread returns, which drops tx.
ReaderReturn ==
    /\ reader.pc = "signal"
    /\ reader.signals >= NumSignals
    /\ reader' = [reader EXCEPT !.pc = "done", !.result = Ok]
    /\ UNCHANGED <<num_threads, sources, processor, record_sets, holders,
                   channel, workers, main, delivered>>

----------------------------------------------------------------------------
\* run_worker_thread

\* processor.set_thread_id(thread_id)
WorkerStart(w) ==
    /\ workers[w].pc = "start"
    /\ workers' = [workers EXCEPT ![w].pc = "recv", ![w].thread_id = workers[w].arg,
                                  ![w].set_ids = @ + 1]
    /\ UNCHANGED <<num_threads, sources, processor, record_sets, holders,
                   channel, reader, main, delivered>>

\* The worker returns straight after its receive loop.
AfterLoopSkip == "done"

\* Where a worker goes when rx.recv() does not yield Ok(Some(idx)).
AfterLoop == "thread_complete"

\* while let Ok(Some(idx)) = rx.recv(): blocks on an empty channel until a
\* token arrives or every sender is gone.
WorkerRecv(w) ==
    /\ workers[w].pc = "recv"
    /\ IF channel # <<>>
       THEN /\ channel' = Tail(channel)
            /\ workers' = IF Head(channel)[1] = "Some"
                          THEN [workers EXCEPT ![w].pc = "lock",
                                               ![w].idx = Head(channel)[2],
                                               ![w].somes = @ + 1]
                          ELSE [workers EXCEPT ![w].pc = AfterLoop,
                                               ![w].nones = @ + 1]
       ELSE /\ Disconnected
            /\ channel' = channel
            /\ workers' = [workers EXCEPT ![w].pc = AfterLoop]
    /\ UNCHANGED <<num_threads, sources, processor, record_sets, holders,
                   reader, main, delivered>>

\* let record_set = record_sets[idx].lock();
WorkerLock(w) ==
    /\ workers[w].pc = "lock"
    /\ CanLock(workers[w].idx)
    /\ holders' = Lock(holders, workers[w].idx, Worker(w))
    /\ workers' = [workers EXCEPT ![w].pc = "process", ![w].pos = 1,
                                  ![w].drained = <<>>]
    /\ UNCHANGED <<num_threads, sources, processor, record_sets, channel,
                   reader, main, delivered>>

\* The loop stops one record early.
DrainedEarly(set, pos) == pos >= Len(set)

\* The for loop over the record set has run out of records.
Drained(set, pos) == pos > Len(set)

\* process_record of the processor.
process_record(p, rec) == IF rec = p.badRec THEN "Err" ELSE "Ok"

\* The record set is iterated from its end.
RecordAtReversed(set, pos) == set[Len(set) + 1 - pos]

\* record_set.into_iter(): the record the pos-th iteration yields.
RecordAt(set, pos) == set[pos]

\* for record in record_set.into_iter() { processor.process_record(record)?; }
\* One iteration; an error returns from the worker and drops the guard.
WorkerProcess(w) ==
    /\ workers[w].pc = "process"
    /\ ~Drained(record_sets[workers[w].idx], workers[w].pos)
    /\ LET rec == RecordAt(record_sets[workers[w].idx], workers[w].pos)
       IN  /\ delivered' = [delivered EXCEPT ![rec] = @ + 1]
           /\ IF process_record(processor, rec) = "Err"
              THEN /\ workers' = [workers EXCEPT
                          ![w].pc = "done",
                          ![w].drained = Append(@, rec),
                          ![w].result = ProcErr(workers[w].thread_id, "process_record")]
                   /\ holders' = Unlock(holders, workers[w].idx, Worker(w))
              ELSE /\ workers' = [workers EXCEPT ![w].pos = @ + 1,
                                                 ![w].drained = Append(@, rec)]
                   /\ holders' = holders
    /\ UNCHANGED <<num_threads, sources, processor, record_sets, channel,
                   reader, main>>

\* on_batch_complete of the processor clone, at its n-th call.
on_batch_complete(p, n) == IF n = p.obcFailAt THEN "Err" ELSE "Ok"

\* The guard is never dropped.
GuardLeaked(h, s, t) == h

\* The guard bound in the body of the receive loop goes out of scope at the
\* end of the body (or at the early return of a failed on_batch_complete).
DropGuard(h, s, t) == Unlock(h, s, t)

\* processor.on_batch_complete()?; the guard record_set is dropped at the end
\* of the loop body, or by the early return.
WorkerBatchComplete(w) ==
    /\ workers[w].pc = "process"
    /\ Drained(record_sets[workers[w].idx], workers[w].pos)
    /\ holders' = DropGuard(holders, workers[w].idx, Worker(w))
    /\ workers' =
          IF on_batch_complete(processor, workers[w].batch_completes + 1) = "Err"
          THEN [workers EXCEPT
                   ![w].pc = "done",
                   ![w].batch_completes = @ + 1,
                   ![w].result = ProcErr(workers[w].thread_id, "on_batch_complete")]
          ELSE [workers EXCEPT ![w].pc = "recv", ![w].batch_completes = @ + 1]
    /\ UNCHANGED <<num_threads, sources, processor, record_sets, channel,
                   reader, main, delivered>>

\* on_thread_complete of the processor.
on_thread_complete(p) == IF p.otcFail THEN "Err" ELSE "Ok"

\* processor.on_thread_complete()?; Ok(())
WorkerThreadComplete(w) ==
    /\ workers[w].pc = "thread_complete"
    /\ workers' =
          IF on_thread_complete(processor) = "Err"
          THEN [workers EXCEPT
                   ![w].pc = "done",
                   ![w].thread_completes = @ + 1,
                   ![w].result = ProcErr(workers[w].thread_id, "on_thread_complete")]
          ELSE [workers EXCEPT ![w].pc = "done", ![w].thread_completes = @ + 1,
                               ![w].result = Ok]
    /\ UNCHANGED <<num_threads, sources, processor, record_sets, holders,
                   channel, reader, main, delivered>>

ReaderStep == ReaderLock \/ ReaderRead \/ ReaderSend \/ ReaderSignal \/ ReaderReturn

WorkerStep(w) ==
    \/ WorkerStart(w)
    \/ WorkerRecv(w)
    \/ WorkerLock(w)
    \/ WorkerProcess(w)
    \/ WorkerBatchComplete(w)
    \/ WorkerThreadComplete(w)

Next ==
    \/ MainStep
    \/ ReaderStep
    \/ \E w \in Threads : WorkerStep(w)

Spec == Init /\ [][Next]_vars

\* Every thread that can run is eventually scheduled.
Fairness ==
    /\ WF_vars(MainStep)
    /\ WF_vars(ReaderStep)
    /\ \A w \in 0 .. (MaxThreads - 1) : WF_vars(w \in Threads /\ WorkerStep(w))

FairSpec == Spec /\ Fairness

----------------------------------------------------------------------------
\* process_parallel_paired (macro_paired_impl.rs)

create_paired_record_sets(n) == [s \in 0 .. (NumSlots(n) - 1) |-> <<<<>>, <<>>>>]

\* A paired processor: process_record_pair fails on a pair that holds record
\* badRec of either stream, on_batch_complete as for the single stream.
PairedProcessors(n, b) ==
    {NoFault}
    \cup {[NoFault EXCEPT !.badRec = k] : k \in 1 .. n}
    \cup {[NoFault EXCEPT !.obcFailAt = j] : j \in 1 .. b}

Min(a, b) == IF a <= b THEN a ELSE b

PairedInit ==
    /\ InitCommon
    /\ main = InitMain("process_parallel_paired")
    /\ record_sets = create_paired_record_sets(num_threads)
    /\ \E src1, src2 \in PairedSources :
          /\ sources = <<src1, src2>>
          /\ processor \in PairedProcessors(
                 Min(NumRecords(src1.sizes), NumRecords(src2.sizes)),
                 Min(Len(src1.sizes), Len(src2.sizes)))
          /\ delivered = [r \in (1 .. NumRecords(src1.sizes))
                                   \X (1 .. NumRecords(src2.sizes)) |-> 0]

\* Spawns the paired reader and num_threads workers (for _ in 0..num_threads:
\* a worker is handed no thread id).
PairedSpawn ==
    /\ main.pc = "start"
    /\ reader' = [reader EXCEPT !.pc = "lock"]
    /\ workers' = [w \in Threads |-> [workers[w] EXCEPT !.pc = "recv"]]
    /\ main' = [main EXCEPT !.pc = "join_reader"]
    /\ UNCHANGED <<num_threads, sources, processor, record_sets, holders,
                   channel, delivered>>

\* reader_handle.join().unwrap()?
PairedJoinReader ==
    /\ main.pc = "join_reader"
    /\ reader.pc = "done"
    /\ main' = IF IsErr(reader.result)
               THEN [main EXCEPT !.pc = "scope_exit", !.result = reader.result]
               ELSE [main EXCEPT !.pc = "join_workers", !.next = 0]
    /\ UNCHANGED <<num_threads, sources, processor, record_sets, holders,
                   channel, reader, workers, delivered>>

\* A worker's error is dropped.
PairedWorkerFailedIgnored(w) == FALSE

\* The ? on a worker's joined result.
PairedWorkerFailed(w) == IsErr(workers[w].result)

\* for handle in handles { handle.join().unwrap()?; }  Ok(())
PairedJoinWorker ==
    /\ main.pc = "join_workers"
    /\ IF main.next = num_threads
       THEN main' = [main EXCEPT !.pc = "scope_exit", !.result = Ok]
       ELSE /\ workers[main.next].pc = "done"
            /\ main' = IF PairedWorkerFailed(main.next)
                       THEN [main EXCEPT !.pc = "scope_exit",
                                         !.result = workers[main.next].result]
                       ELSE [main EXCEPT !.next = @ + 1]
    /\ UNCHANGED <<num_threads, sources, processor, record_sets, holders,
                   channel, reader, workers, delivered>>

\* thread::scope returns only when every spawned thread has finished.
PairedScopeExit ==
    /\ main.pc = "scope_exit"
    /\ AllFinished
    /\ main' = [main EXCEPT !.pc = "returned"]
    /\ UNCHANGED <<num_threads, sources, processor, record_sets, holders,
                   channel, reader, workers, delivered>>

PairedMainStep == PairedSpawn \/ PairedJoinReader \/ PairedJoinWorker \/ PairedScopeExit

\* let mut record_set_pair = record_sets[current_idx].lock();
PairedReaderLock ==
    /\ reader.pc = "lock"
    /\ CanLock(reader.current_idx)
    /\ holders' = Lock(holders, reader.current_idx, READER)
    /\ reader' = [reader EXCEPT !.pc = "read"]
    /\ UNCHANGED <<num_threads, sources, processor, record_sets, channel,
                   workers, main, delivered>>

\* What one half of a slot may hold after read_fn returned got for it.
HalfAfter(old, got) ==
    IF got.tag = "None" THEN {old}
    ELSE IF got.res = "Err" THEN Unfilled(old, <<>>)
    ELSE {got.set}

\* match (read_fn(&mut reader1, ..), read_fn(&mut reader2, ..)): what the
\* reader does with the two results: "publish", <<"return", error>> or "break".
PairedOutcome(got1, got2) ==
    IF got1.tag = "Some" /\ got2.tag = "Some"
    THEN IF got1.res = "Err" THEN <<"return", ParseErr(1)>>
         ELSE IF got2.res = "Err" THEN <<"return", ParseErr(2)>>
         ELSE <<"publish">>
    ELSE <<"break">>

\* Both parsers are asked to fill their half, then the pair of results is
\* matched.  The guard is released on every path.
PairedReaderRead ==
    /\ reader.pc = "read"
    /\ LET idx == reader.current_idx
           got1 == read_record_set(sources[1], reader.fills + 1)
           got2 == read_record_set(sources[2], reader.fills + 1)
           out == PairedOutcome(got1, got2)
       IN  /\ holders' = Unlock(holders, idx, READER)
           /\ \E c1 \in HalfAfter(record_sets[idx][1], got1),
                 c2 \in HalfAfter(record_sets[idx][2], got2) :
                 record_sets' = [record_sets EXCEPT ![idx] = <<c1, c2>>]
           /\ reader' =
                 IF out[1] = "publish"
                 THEN [reader EXCEPT !.pc = "send", !.fills = @ + 1]
                 ELSE IF out[1] = "return"
                 THEN [reader EXCEPT !.pc = "done", !.fills = @ + 1, !.result = out[2]]
                 ELSE [reader EXCEPT !.pc = "signal", !.fills = @ + 1]
    /\ UNCHANGED <<num_threads, sources, processor, channel, workers, main,
                   delivered>>

\* tx.send(Some(current_idx)).unwrap(); current_idx = (current_idx + 1) % len
PairedReaderSend ==
    /\ reader.pc = "send"
    /\ CanSend
    /\ channel' = Append(channel, SomeTok(reader.current_idx))
    /\ reader' = [reader EXCEPT !.pc = "lock", !.current_idx = NextIdx(@),
                                !.published = @ + 1]
    /\ UNCHANGED <<num_threads, sources, processor, record_sets, holders,
                   workers, main, delivered>>

\* for _ in 0..num_threads { tx.send(None).unwrap(); }
PairedReaderSignal ==
    /\ reader.pc = "signal"
    /\ reader.signals < num_threads
    /\ CanSend
    /\ channel' = Append(channel, NoneTok)
    /\ reader' = [reader EXCEPT !.signals = @ + 1]
    /\ UNCHANGED <<num_threads, sources, processor, record_sets, holders,
                   workers, main, delivered>>

\* Ok(()): the reader thread returns, which drops tx.
PairedReaderReturn ==
    /\ reader.pc = "signal"
    /\ reader.signals >= num_threads
    /\ reader' = [reader EXCEPT !.pc = "done", !.result = Ok]
    /\ UNCHANGED <<num_threads, sources, processor, record_sets, holders,
                   channel, workers, main, delivered>>

PairedReaderStep ==
    \/ PairedReaderLock
    \/ PairedReaderRead
    \/ PairedReaderSend
    \/ PairedReaderSignal
    \/ PairedReaderReturn

\* while let Ok(Some(idx)) = rx.recv(); when the loop ends the worker returns
\* Ok(()) at once.
PairedWorkerRecv(w) ==
    /\ workers[w].pc = "recv"
    /\ IF channel # <<>>
       THEN /\ channel' = Tail(channel)
            /\ workers' = IF Head(channel)[1] = "Some"
                          THEN [workers EXCEPT ![w].pc = "lock",
                                               ![w].idx = Head(channel)[2],
                                               ![w].somes = @ + 1]
                          ELSE [workers EXCEPT ![w].pc = "done",
                                               ![w].nones = @ + 1,
                                               ![w].result = Ok]
       ELSE /\ Disconnected
            /\ channel' = channel
            /\ workers' = [workers EXCEPT ![w].pc = "done", ![w].result = Ok]
    /\ UNCHANGED <<num_threads, sources, processor, record_sets, holders,
                   reader, main, delivered>>

\* let record_set_pair = record_sets[idx].lock();
PairedWorkerLock(w) ==
    /\ workers[w].pc = "lock"
    /\ CanLock(workers[w].idx)
    /\ holders' = Lock(holders, workers[w].idx, Worker(w))
    /\ workers' = [workers EXCEPT ![w].pc = "process", ![w].pos = 1,
                                  ![w].drained = <<>>]
    /\ UNCHANGED <<num_threads, sources, processor, record_sets, channel,
                   reader, main, delivered>>

\* records1.zip(records2) has run out: one of the two halves has.
ZipDrained(pair, pos) == pos > Len(pair[1]) \/ pos > Len(pair[2])

\* process_record_pair of the processor.
process_record_pair(p, r1, r2) ==
    IF p.badRec # 0 /\ (r1 = p.badRec \/ r2 = p.badRec) THEN "Err" ELSE "Ok"

\* for (r1, r2) in records1.zip(records2) { processor.process_record_pair(r1, r2)?; }
PairedWorkerProcess(w) ==
    /\ workers[w].pc = "process"
    /\ ~ZipDrained(record_sets[workers[w].idx], workers[w].pos)
    /\ LET r1 == record_sets[workers[w].idx][1][workers[w].pos]
           r2 == record_sets[workers[w].idx][2][workers[w].pos]
       IN  /\ delivered' = [delivered EXCEPT ![<<r1, r2>>] = @ + 1]
           /\ IF process_record_pair(processor, r1, r2) = "Err"
              THEN /\ workers' = [workers EXCEPT
                          ![w].pc = "done",
                          ![w].drained = Append(@, <<r1, r2>>),
                          ![w].result = ProcErr(w, "process_record_pair")]
                   /\ holders' = Unlock(holders, workers[w].idx, Worker(w))
              ELSE /\ workers' = [workers EXCEPT ![w].pos = @ + 1,
                                                 ![w].drained = Append(@, <<r1, r2>>)]
                   /\ holders' = holders
    /\ UNCHANGED <<num_threads, sources, processor, record_sets, channel,
                   reader, main>>

\* processor.on_batch_complete()?; the guard is dropped at the end of the
\* loop body, or by the early return.
PairedWorkerBatchComplete(w) ==
    /\ workers[w].pc = "process"
    /\ ZipDrained(record_sets[workers[w].idx], workers[w].pos)
    /\ holders' = DropGuard(holders, workers[w].idx, Worker(w))
    /\ workers' =
          IF on_batch_complete(processor, workers[w].batch_completes + 1) = "Err"
          THEN [workers EXCEPT
                   ![w].pc = "done",
                   ![w].batch_completes = @ + 1,
                   ![w].result = ProcErr(w, "on_batch_complete")]
          ELSE [workers EXCEPT ![w].pc = "recv", ![w].batch_completes = @ + 1]
    /\ UNCHANGED <<num_threads, sources, processor, record_sets, channel,
                   reader, main, delivered>>

PairedWorkerStep(w) ==
    \/ PairedWorkerRecv(w)
    \/ PairedWorkerLock(w)
    \/ PairedWorkerProcess(w)
    \/ PairedWorkerBatchComplete(w)

PairedNext ==
    \/ PairedMainStep
    \/ PairedReaderStep
    \/ \E w \in Threads : PairedWorkerStep(w)

PairedSpec == PairedInit /\ [][PairedNext]_vars

PairedFairness ==
    /\ WF_vars(PairedMainStep)
    /\ WF_vars(PairedReaderStep)
    /\ \A w \in 0 .. (MaxThreads - 1) : WF_vars(w \in Threads /\ PairedWorkerStep(w))

PairedFairSpec == PairedSpec /\ PairedFairness

----------------------------------------------------------------------------
\* process_parallel with one worker on a longer input: more record sets than
\* the slots and the channel hold together with the one a worker has taken.

LongInit ==
    /\ InitCommon
    /\ num_threads = 1
    /\ main = InitMain("process_parallel")
    /\ record_sets = create_record_sets(num_threads)
    /\ \E src \in SourcesOf(MaxLongBatches) :
          /\ sources = <<src, NoSource>>
          /\ processor \in Processors(NumRecords(src.sizes), Len(src.sizes))
          /\ delivered = [r \in 1 .. NumRecords(src.sizes) |-> 0]

LongSpec == LongInit /\ [][Next]_vars

LongFairSpec == LongSpec /\ Fairness

----------------------------------------------------------------------------
\* Either entry point: a call of process_parallel or of process_parallel_paired.

AnyInit == Init \/ PairedInit

AnyNext ==
    \/ main.call = "process_parallel" /\ Next
    \/ main.call = "process_parallel_paired" /\ PairedNext

AnySpec == AnyInit /\ [][AnyNext]_vars

----------------------------------------------------------------------------
\* Inputs and outcomes the claims speak about

Returned == main.pc = "returned"

\* The source parses cleanly to its end and no callback of the processor fails.
ErrorFree == sources[1].ending = "eof" /\ sources[2].ending = "eof" /\ processor = NoFault

TotalDelivered == SumTo([i \in 1 .. Len(delivered) |-> delivered[i]], Len(delivered))

\* C1: when process_parallel returns on an error-free input of N records, the
\* processor has seen N process_record calls, one for each record.
C1_ExactlyOnce ==
    (ErrorFree /\ Returned) =>
        /\ TotalDelivered = NumRecords(sources[1].sizes)
        /\ \A r \in DOMAIN delivered : delivered[r] = 1

\* C2: once a callback of some worker has returned an error, process_parallel
\* eventually returns, and what it returns is an error.
C2_WorkerFailureFails ==
    (\E w \in Threads : IsErr(workers[w].result)) ~> (Returned /\ IsErr(main.result))

\* Some tokens never follow a None token on the channel.
NoneTokensLast ==
    \A i, j \in 1 .. Len(channel) :
        (i < j /\ channel[i] = NoneTok) => channel[j] = NoneTok

\* A worker receives at most one None token and is out of its receive loop
\* once it has received it.
OneNoneEach ==
    \A w \in Threads :
        /\ workers[w].nones <= 1
        /\ workers[w].nones = 1 => workers[w].pc \in {"thread_complete", "done"}

C3_TokenAccounting ==
    /\ NoneTokensLast
    /\ OneNoneEach
    /\ reader.signals <= num_threads
    /\ (ErrorFree /\ reader.pc = "done") => reader.signals = num_threads
    /\ (ErrorFree /\ Returned) =>
          /\ main.result = Ok
          /\ channel = <<>>
          /\ \A w \in Threads : workers[w].nones = 1

\* C3: on an error-free input (the empty one included) the reader sends
\* num_threads None tokens after its last Some token, every worker receives
\* exactly one None token and nothing after it, and process_parallel
\* eventually returns Ok.
C3_CleanTermination ==
    /\ []C3_TokenAccounting
    /\ (ErrorFree ~> (Returned /\ main.result = Ok))

C3_Witness ==
    /\ ErrorFree
    /\ Returned
    /\ sources[1].sizes = <<>>
    /\ num_threads > 1
    /\ \A w \in Threads : workers[w].nones = 1

\* The batches of the source, as the sets of records the parser yields.
IsPrefixOfBatch(seq) ==
    \E b \in 1 .. Len(sources[1].sizes) :
        /\ Len(seq) <= sources[1].sizes[b]
        /\ seq = SubSeq(BatchRecords(sources[1].sizes, b), 1, Len(seq))

\* C4: the lock of a slot is held by at most one thread, and the records a
\* worker has iterated in one drain all come from one fill of the slot.
C4_SlotMutualExclusion ==
    /\ \A s \in DOMAIN holders : Cardinality(holders[s]) <= 1
    /\ \A w \in Threads :
          /\ workers[w].drained # <<>> => IsPrefixOfBatch(workers[w].drained)
          /\ workers[w].pc = "process" =>
                /\ holders[workers[w].idx] = {Worker(w)}
                /\ workers[w].drained =
                      SubSeq(record_sets[workers[w].idx], 1, workers[w].pos - 1)

C4_Witness ==
    \E w \in Threads :
        /\ workers[w].pc = "process"
        /\ Len(workers[w].drained) = 1
        /\ Len(record_sets[workers[w].idx]) = 2
        /\ \E s \in DOMAIN holders : holders[s] = {READER}

\* What holds of the reader once the parser has reported a hard error.
C5_NotPublished ==
    IsErr(reader.result) =>
        /\ reader.pc = "done"
        /\ reader.result = ParseErr(1)
        /\ reader.fills = Len(sources[1].sizes) + 1
        /\ reader.published = Len(sources[1].sizes)
        /\ reader.signals = 0
        /\ (Returned => main.result = ParseErr(1))

\* C5: when the parser reports a hard error during a fill, the index of that
\* slot is not published, the reader stops, every worker terminates, and
\* process_parallel eventually returns the parser's error.
C5_SourceError ==
    /\ []C5_NotPublished
    /\ (IsErr(reader.result) ~>
           (Returned /\ main.result = ParseErr(1)
                     /\ \A w \in Threads : workers[w].pc = "done"))

C5_Witness ==
    /\ Returned
    /\ main.result = ParseErr(1)
    /\ reader.published > 0
    /\ \E w \in Threads : workers[w].somes > 0 /\ workers[w].nones = 0

SumOver(f, n) == SumTo([i \in 1 .. n |-> f[i - 1]], n)

BatchCompletes == SumOver([w \in Threads |-> workers[w].batch_completes], num_threads)

\* In an error-free run a worker has called on_batch_complete once for each
\* Some token it received, the one it is still draining excepted.
C7_OncePerToken ==
    ErrorFree =>
        /\ \A w \in Threads :
              workers[w].batch_completes =
                 workers[w].somes - (IF workers[w].pc \in {"lock", "process"} THEN 1 ELSE 0)
        /\ Returned => BatchCompletes = reader.published

\* A call of on_batch_complete comes after process_record of the last record
\* of the slot and takes the worker back to its receive.
C7_AfterLastRecord ==
    \A w \in Threads :
        workers'[w].batch_completes # workers[w].batch_completes =>
            /\ workers[w].pc = "process"
            /\ workers[w].drained = record_sets[workers[w].idx]
            /\ workers'[w].batch_completes = workers[w].batch_completes + 1
            /\ ErrorFree => workers'[w].pc = "recv"

\* C7: in an error-free run each Some token a worker receives leads to one
\* on_batch_complete call on that worker, after the process_record call for
\* the last record of the slot and before the next receive, and the calls of
\* all workers add up to the number of batches the reader published.
C7_BatchCompleteAccounting ==
    /\ []C7_OncePerToken
    /\ [][C7_AfterLastRecord]_vars

C7_Witness ==
    /\ ErrorFree
    /\ Returned
    /\ reader.published = 3
    /\ BatchCompletes = 3
    /\ \A w \in Threads : workers[w].batch_completes > 0

\* A worker has called on_thread_complete at most once, and once when it has
\* finished with success.
C8_OncePerWorker ==
    \A w \in Threads :
        /\ workers[w].thread_completes <= 1
        /\ (workers[w].pc = "done" /\ workers[w].result = Ok) =>
               workers[w].thread_completes = 1

\* The call comes after the receive loop has ended and after the
\* on_batch_complete of the last batch, and before the worker reports.
C8_AfterLastBatch ==
    \A w \in Threads :
        workers'[w].thread_completes # workers[w].thread_completes =>
            /\ workers[w].pc = "thread_complete"
            /\ workers[w].batch_completes = workers[w].somes
            /\ workers'[w].somes = workers[w].somes
            /\ workers'[w].pc = "done"

\* C8: a worker that finishes successfully has called on_thread_complete once,
\* after its last on_batch_complete and after it stopped receiving, and before
\* it reports success; so does a worker that drained no batch.
C8_ThreadComplete ==
    /\ []C8_OncePerWorker
    /\ [][C8_AfterLastBatch]_vars

C8_Witness ==
    /\ Returned
    /\ main.result = Ok
    /\ \E w, v \in Threads :
          /\ workers[w].somes = 0 /\ workers[w].thread_completes = 1
          /\ workers[v].somes > 0 /\ workers[v].thread_completes = 1

\* C9: each worker calls set_thread_id once, before its first receive, with a
\* value in [0, num_threads), and no two workers are given the same value.
C9_ThreadIds ==
    \A w \in Threads :
        /\ workers[w].set_ids <= 1
        /\ workers[w].pc \notin {"unspawned", "start"} =>
              /\ workers[w].set_ids = 1
              /\ workers[w].thread_id \in 0 .. (num_threads - 1)
        /\ workers[w].set_ids = 0 => workers[w].somes + workers[w].nones = 0
        /\ \A v \in Threads :
              (v # w /\ workers[v].set_ids = 1 /\ workers[w].set_ids = 1) =>
                  workers[v].thread_id # workers[w].thread_id

C9_Witness ==
    /\ num_threads > 1
    /\ \A w \in Threads : workers[w].set_ids = 1 /\ workers[w].somes > 0

\* Parser i has reported a hard parse error: the reader has made the call of
\* read_fn on which source i yields its malformed record.
ParserErred(i) ==
    sources[i].ending = "err" /\ reader.fills > Len(sources[i].sizes)

\* C6: when either of the two parsers has reported a hard parse error in a
\* fill cycle, whatever the other parser reported in that cycle, the value
\* process_parallel_paired returns is an error.
C6_PairedSourceError ==
    (Returned /\ (ParserErred(1) \/ ParserErred(2))) => IsErr(main.result)

\* C10: a paired worker that reports success has called set_thread_id once,
\* with an id in [0, num_threads), and on_thread_complete once.
C10_PairedLifecycle ==
    \A w \in Threads :
        (workers[w].pc = "done" /\ workers[w].result = Ok) =>
            /\ workers[w].set_ids = 1
            /\ workers[w].thread_id \in 0 .. (num_threads - 1)
            /\ workers[w].thread_completes = 1

----------------------------------------------------------------------------
\* Paired streams

\* C11: every process_record_pair call is handed two records that stand at
\* the same position of their two streams, however the two parsers cut the
\* streams into record sets.
C11_PairedAlignment ==
    \A p \in DOMAIN delivered : delivered[p] > 0 => p[1] = p[2]

RECURSIVE SumCalls(_, _)
SumCalls(f, S) ==
    IF S = {} THEN 0
    ELSE LET p == CHOOSE q \in S : TRUE IN f[p] + SumCalls(f, S \ {p})

\* The number of process_record_pair calls made so far.
PairCalls == SumCalls(delivered, DOMAIN delivered)

\* C12: for two error-free streams of m and n records with m # n,
\* process_parallel_paired returns Ok, and at its return process_record_pair
\* has been called exactly min(m, n) times.
C12_LengthMismatch ==
    LET m == NumRecords(sources[1].sizes)
        n == NumRecords(sources[2].sizes)
    IN  (ErrorFree /\ Returned /\ m # n) =>
            /\ main.result = Ok
            /\ PairCalls = Min(m, n)

\* Both streams parse cleanly and exactly one pair makes process_record_pair
\* fail.
OnePairFails ==
    /\ sources[1].ending = "eof"
    /\ sources[2].ending = "eof"
    /\ processor.badRec # 0
    /\ processor.obcFailAt = 0

\* The process_record_pair calls so far that returned Ok.
OkPairCalls ==
    SumCalls([p \in DOMAIN delivered |->
                 IF process_record_pair(processor, p[1], p[2]) = "Ok"
                 THEN delivered[p] ELSE 0],
             DOMAIN delivered)

\* Some process_record_pair call has returned an error.
PairCallFailed ==
    \E p \in DOMAIN delivered :
        delivered[p] > 0 /\ process_record_pair(processor, p[1], p[2]) = "Err"

\* C13 as stated, on two streams that their parsers cut alike: when
\* process_record_pair fails exactly for the pair at stream index k (0-based:
\* the pair of the records numbered k + 1), process_parallel_paired returns a
\* processing error and at most k calls of process_record_pair returned Ok.
C13_HeaderMismatch ==
    (OnePairFails /\ sources[1].sizes = sources[2].sizes /\ Returned) =>
        /\ IsErr(main.result)
        /\ main.result[2] = "processor"
        /\ OkPairCalls <= processor.badRec - 1

\* What process_parallel_paired returns after a failed process_record_pair.
C13_ReturnsProcessingError ==
    (OnePairFails /\ PairCallFailed /\ Returned) =>
        /\ IsErr(main.result)
        /\ main.result[2] = "processor"
        /\ main.result[4] = "process_record_pair"

\* A worker whose process_record_pair call failed has returned that error,
\* and a worker that has returned makes no further call.
C13_FailingWorkerStops ==
    \A w \in Threads :
        /\ (workers[w].drained # <<>> /\ workers[w].pc # "done") =>
               \A i \in 1 .. Len(workers[w].drained) :
                   process_record_pair(processor, workers[w].drained[i][1],
                                       workers[w].drained[i][2]) = "Ok"
        /\ workers[w].pc = "done" => workers'[w] = workers[w]

\* C13 (amended): when process_record_pair returns an error for one pair, the
\* worker that made the call returns the error without another callback, and
\* process_parallel_paired, when it returns, returns that processing error;
\* the calls that returned Ok are not bounded by the index of the failing pair.
C13_ProcessingError ==
    /\ []C13_ReturnsProcessingError
    /\ [][C13_FailingWorkerStops]_vars

C13_Witness ==
    /\ OnePairFails
    /\ sources[1].sizes = sources[2].sizes
    /\ Returned
    /\ main.result[2] = "processor"
    /\ OkPairCalls > processor.badRec - 1

----------------------------------------------------------------------------
\* Order of a worker's steps

\* What a worker has passed to process_record since it locked the slot is the
\* front of the slot, which is the front of one record set of the source.
C14_FrontOfOneBatch ==
    \A w \in Threads :
        workers[w].pc = "process" =>
            /\ workers[w].drained =
                  SubSeq(record_sets[workers[w].idx], 1, Len(workers[w].drained))
            /\ workers[w].drained # <<>> => IsPrefixOfBatch(workers[w].drained)
            /\ \A i \in 1 .. (Len(workers[w].drained) - 1) :
                  workers[w].drained[i + 1] = workers[w].drained[i] + 1

\* Each process_record call of a drain is for the next record of the slot,
\* and the worker leaves the slot only when it has passed every record.
C14_NextRecord ==
    \A w \in Threads :
        LET slot == record_sets[workers[w].idx]
            n == Len(workers[w].drained)
        IN  /\ (workers[w].pc = "process" /\ workers'[w].drained # workers[w].drained) =>
                  /\ n < Len(slot)
                  /\ workers'[w].drained = Append(workers[w].drained, slot[n + 1])
                  /\ delivered' = [delivered EXCEPT ![slot[n + 1]] = @ + 1]
            /\ (workers[w].pc = "process" /\ workers'[w].pc = "recv") =>
                  workers[w].drained = slot

\* C14: for each token a worker receives it calls process_record once for each
\* record of the slot, in the order the records were parsed, and makes no call
\* for a record of another batch in between.
C14_OrderWithinBatch ==
    /\ []C14_FrontOfOneBatch
    /\ [][C14_NextRecord]_vars

C14_Witness ==
    \E w \in Threads :
        /\ workers[w].pc = "recv"
        /\ workers[w].somes = 2
        /\ Len(workers[w].drained) = 2
        /\ IsPrefixOfBatch(workers[w].drained)

----------------------------------------------------------------------------
\* Threads and locks

\* C15: in every state in which process_parallel or process_parallel_paired
\* has returned, with Ok or with an error, the reader thread and every worker
\* thread have terminated.
C15_NoThreadOutlivesCall ==
    Returned =>
        /\ reader.pc = "done"
        /\ \A w \in Threads : workers[w].pc = "done"

C15_Witness ==
    /\ Returned
    /\ IsErr(main.result)
    /\ main.result[2] = "parse"
    /\ num_threads > 1
    /\ \E w \in Threads : workers[w].somes > 0

\* A Some token for slot s is on the channel, or a worker has received one
\* and has not locked the slot yet.
TokenPending(s) ==
    \/ \E i \in 1 .. Len(channel) : channel[i] = SomeTok(s)
    \/ \E w \in Threads : workers[w].pc = "lock" /\ workers[w].idx = s

\* C16: once the reader has published Some(idx) for a fill of slot idx, it
\* does not fill the slot again before a worker has received the token and
\* drained the slot: when the reader has just filled a slot, no token of an
\* earlier fill of that slot is still pending.
C16_NoOverwriteOfUndrained ==
    reader.pc = "send" => ~TokenPending(reader.current_idx)

----------------------------------------------------------------------------
\* The reader's exits and publications

NonesOnChannel == Cardinality({i \in 1 .. Len(channel) : channel[i] = NoneTok})

NonesReceived == SumOver([w \in Threads |-> workers[w].nones], num_threads)

\* The None tokens the reader has sent are those on the channel and those
\* received; a reader that returned Ok has sent num_threads of them, a reader
\* that returned an error has sent none.
C17_NonesSent ==
    /\ reader.signals = NonesOnChannel + NonesReceived
    /\ reader.pc = "done" =>
          /\ reader.result = Ok => reader.signals = num_threads
          /\ IsErr(reader.result) => reader.signals = 0

\* A None token is sent only after the fill loop was left at end of input, and
\* the reader returns Ok only after the last of them.
C17_SentAfterLoop ==
    /\ reader'.signals # reader.signals =>
          /\ reader.pc = "signal"
          /\ reader'.signals = reader.signals + 1
          /\ channel' = Append(channel, NoneTok)
    /\ (reader.pc # "done" /\ reader'.pc = "done") =>
          \/ reader.pc = "signal" /\ reader.signals = num_threads /\ reader'.result = Ok
          \/ reader.pc = "read" /\ reader.signals = 0 /\ IsErr(reader'.result)

C18_ReleasedBeforeBatchComplete ==
    [][\A w \in Threads :
          workers'[w].batch_completes # workers[w].batch_completes =>
              Worker(w) \notin holders[workers[w].idx]]_vars

\* The records (record pairs) the iteration over a slot yields.
YieldOfSlot(slot) ==
    IF main.call = "process_parallel" THEN Len(slot)
    ELSE Min(Len(slot[1]), Len(slot[2]))

\* The per-record callback is called under the slot's lock; on_batch_complete
\* is called under it too, after the callback for the last record the
\* iteration yields, and the lock is released when on_batch_complete returns.
C18_StepOrder ==
    \A w \in Threads :
        LET idx == workers[w].idx IN
        /\ workers'[w].drained # workers[w].drained /\ workers'[w].drained # <<>> =>
              /\ holders[idx] = {Worker(w)}
              /\ workers'[w].batch_completes = workers[w].batch_completes
        /\ workers'[w].batch_completes # workers[w].batch_completes =>
              /\ workers[w].pc = "process"
              /\ holders[idx] = {Worker(w)}
              /\ Len(workers[w].drained) = YieldOfSlot(record_sets[idx])
              /\ Worker(w) \notin holders'[idx]
              /\ workers'[w].pc \in {"recv", "done"}

\* A worker holds the lock of a slot only between its lock and the return of
\* on_batch_complete.
C18_LockedWhileDraining ==
    \A w \in Threads : \A s \in DOMAIN holders :
        Worker(w) \in holders[s] => workers[w].pc = "process" /\ workers[w].idx = s

\* C18 (amended): for each Some(idx) token a worker acquires the lock of slot
\* idx, calls the per-record callback for every record the iteration yields,
\* calls on_batch_complete while it still holds the lock, and releases the
\* lock when on_batch_complete has returned, before its next receive.
C18_WorkerStepOrder ==
    /\ []C18_LockedWhileDraining
    /\ [][C18_StepOrder]_vars

C18_Witness ==
    \E w \in Threads :
        /\ workers[w].pc = "process"
        /\ workers[w].drained # <<>>
        /\ workers[w].drained = record_sets[workers[w].idx]
        /\ holders[workers[w].idx] = {Worker(w)}
        /\ reader.pc = "lock"
        /\ reader.current_idx = workers[w].idx

\* The slots whose lock thread t holds.
LocksHeldBy(t) == {s \in DOMAIN holders : t \in holders[s]}

\* C19: the reader holds no slot lock while it sends, or is blocked sending, a
\* token; a worker holds no slot lock while it receives, or is blocked
\* receiving; and a thread that has terminated, normally or by an error,
\* holds no slot lock.
C19_LockDiscipline ==
    /\ reader.pc \in {"send", "signal", "done"} => LocksHeldBy(READER) = {}
    /\ \A w \in Threads :
          workers[w].pc \in {"recv", "thread_complete", "done"} =>
              LocksHeldBy(Worker(w)) = {}

C19_Witness ==
    /\ reader.pc = "send"
    /\ reader.published >= 2
    /\ channel = <<>>
    /\ \E w \in Threads : workers[w].pc = "done" /\ IsErr(workers[w].result)
    /\ \E w \in Threads : workers[w].pc = "recv" /\ workers[w].batch_completes > 0

\* The slot of the k-th successful fill, k = 0, 1, ...
SlotOfFill(k) == k % NumSlots(num_threads)

\* The reader's index is the slot of the next fill; a fill that succeeded and
\* is not published yet is the k-th one, k the number of fills published, and
\* it sits in slot k mod 2T.
C20_FillsRoundRobin ==
    /\ reader.current_idx = SlotOfFill(reader.published)
    /\ reader.published <= Len(sources[1].sizes)
    /\ reader.pc = "send" =>
          /\ reader.fills = reader.published + 1
          /\ record_sets[SlotOfFill(reader.published)] =
                BatchRecords(sources[1].sizes, reader.published + 1)

\* The k-th publication sends exactly Some(k mod 2T); no Some token is sent
\* otherwise, and none by or after the fill attempt that reports end of input.
C20_PublishesSlot ==
    /\ reader'.published # reader.published =>
          /\ reader.pc = "send"
          /\ reader'.published = reader.published + 1
          /\ channel' = Append(channel, SomeTok(SlotOfFill(reader.published)))
    /\ (Len(channel') > Len(channel) /\ channel'[Len(channel')] # NoneTok) =>
          reader'.published = reader.published + 1
    /\ (reader.pc = "read" /\ reader'.pc \in {"signal", "done"}) =>
          /\ channel' = channel
          /\ reader'.published = reader.published
    /\ reader.pc \in {"signal", "done"} => reader'.published = reader.published

\* C20: the k-th successful fill (k = 0, 1, ...) is made into slot k mod 2T
\* and publishes exactly Some(k mod 2T); the fill attempt that reports end of
\* input publishes no Some token.
C20_RoundRobinPublication ==
    /\ []C20_FillsRoundRobin
    /\ [][C20_PublishesSlot]_vars

C20_Witness ==
    /\ num_threads = 1
    /\ reader.pc = "done"
    /\ reader.result = Ok
    /\ reader.published = 3
    /\ reader.current_idx = 1

----------------------------------------------------------------------------
\* Resources, the reported error, and what a worker's failure leaves running

\* The pool has 2T slots, each with its mutex, every Some token on the queue
\* names one of them, and the queue holds at most 2T tokens.
C21_Bounded ==
    /\ DOMAIN record_sets = 0 .. (2 * num_threads - 1)
    /\ DOMAIN holders = DOMAIN record_sets
    /\ Len(channel) <= 2 * num_threads
    /\ \A i \in 1 .. Len(channel) :
          channel[i] # NoneTok =>
              /\ channel[i][1] = "Some"
              /\ channel[i][2] \in 0 .. (2 * num_threads - 1)
    /\ \A w \in Threads : workers[w].idx \in 0 .. (2 * num_threads - 1)

\* A send puts its token behind the tokens already queued and only on a queue
\* that is not full; a receive takes the token at the front.
C21_Fifo ==
    /\ DOMAIN record_sets' = DOMAIN record_sets
    /\ channel' # channel =>
          \/ /\ Len(channel) < 2 * num_threads
             /\ \E t \in {NoneTok} \cup {SomeTok(s) : s \in DOMAIN record_sets} :
                   channel' = Append(channel, t)
          \/ /\ channel # <<>>
             /\ channel' = Tail(channel)
             /\ \E w \in Threads :
                   /\ workers[w].pc = "recv"
                   /\ IF Head(channel) = NoneTok
                      THEN workers'[w].nones = workers[w].nones + 1
                      ELSE /\ workers'[w].somes = workers[w].somes + 1
                           /\ workers'[w].idx = Head(channel)[2]
    /\ \A w \in Threads :
          (workers'[w].somes # workers[w].somes \/ workers'[w].nones # workers[w].nones)
              => channel # <<>> /\ channel' = Tail(channel)

\* C21: the pool holds exactly 2T slots for the whole run, every Some(idx) on
\* the queue has 0 <= idx < 2T, tokens are received in the order they were
\* sent, and the queue never holds more than 2T tokens: a send on a full queue
\* waits.
C21_BoundedResources ==
    /\ []C21_Bounded
    /\ [][C21_Fifo]_vars

C21_Witness ==
    /\ Len(channel) = 2 * num_threads
    /\ reader.pc = "send"
    /\ \E i \in 1 .. Len(channel) : channel[i] = SomeTok(1)

\* The workers that returned an error.
FailedWorkers == {w \in Threads : IsErr(workers[w].result)}

FirstFailedWorker == CHOOSE w \in FailedWorkers : \A v \in FailedWorkers : w <= v

\* C22: when process_parallel returns an error, the error is the reader's if
\* the reader failed, and otherwise that of the failed worker with the
\* smallest thread id, whatever the order in which the threads failed; the
\* errors of the other failed threads are dropped.
C22_ErrorChoice ==
    (main.call = "process_parallel" /\ Returned /\ IsErr(main.result)) =>
        IF IsErr(reader.result)
        THEN main.result = reader.result
        ELSE /\ FailedWorkers # {}
             /\ main.result = workers[FirstFailedWorker].result
             /\ main.result[3] = FirstFailedWorker

C22_Witness ==
    /\ main.call = "process_parallel"
    /\ Returned
    /\ ~IsErr(reader.result)
    /\ Cardinality(FailedWorkers) = 2
    /\ main.result = workers[0].result
    /\ workers[1].result # workers[0].result
    /\ workers[0].result[4] = "on_batch_complete"

\* The source ends cleanly and some worker has returned an error.
WorkerFailedOnCleanInput ==
    sources[1].ending = "eof" /\ FailedWorkers # {}

\* After a worker's failure the reader still fills and publishes every batch
\* of the source and comes to its end.
C23_ReaderGoesOn ==
    WorkerFailedOnCleanInput ~>
        (reader.published = Len(sources[1].sizes) /\ reader.pc \in {"signal", "done"})

\* After a worker's failure a worker that has not failed goes on until it has
\* received a None token, and then terminates.
C23_SurvivorsGoOn ==
    \A w \in 0 .. (MaxThreads - 1) :
        (w \in Threads /\ WorkerFailedOnCleanInput /\ w \notin FailedWorkers) ~>
            (w \in Threads /\
                (w \in FailedWorkers \/ (workers[w].pc = "done" /\ workers[w].nones = 1)))

\* While a worker that has not failed is left, no Some token stays unreceived
\* once the workers have terminated.
C23_SomesReceived ==
    (WorkerFailedOnCleanInput /\ FailedWorkers # Threads
        /\ \A w \in Threads : workers[w].pc = "done") =>
            \A i \in 1 .. Len(channel) : channel[i] = NoneTok

\* C23: after one worker has returned an error the reader keeps filling and
\* publishing batches until end of input, every worker that has not failed
\* keeps draining tokens until it receives its None token and then terminates
\* normally, and every Some token sent is received as long as a worker that
\* has not failed is left.
C23_NoCancellation ==
    /\ C23_ReaderGoesOn
    /\ C23_SurvivorsGoOn
    /\ []C23_SomesReceived

====
